---- MODULE Spec2Model ----
(***************************************************************************)
(* Parser combinators of src/lib.rs.                                       *)
(*                                                                         *)
(* A &str is modelled as its UTF-8 bytes (a sequence of 0..255), because   *)
(* the code mixes character iteration (chars().next()) with byte offsets   *)
(* (expected.len(), matched.len(), len_utf8(), &input[n..]).  A parser is  *)
(* a tree of the closures the constructors return; a ParseResult is        *)
(* Ok((rest, value)) or Err(input).  Two more outcomes exist for a call:   *)
(* "panic" (a slice off a char boundary) and "hang" (a repetition loop     *)
(* that never leaves).                                                     *)
(***************************************************************************)
EXTENDS Integers, Sequences, FiniteSets, TLC

\* Longest input, in characters.
MaxLen == 3

\* Cap on the iterations of a top-level repetition loop that is followed
\* step by step (only a loop that never leaves reaches it).
MaxIter == MaxLen + 2

\* The characters inputs are made of: a, e-acute (two bytes), 1, -, ", space.
Alphabet == {97, 233, 49, 45, 34, 32}

----------------------------------------------------------------------------
(* char and str primitives of the standard library, as the code uses them *)

\* char::len_utf8
LenUtf8(c) == IF c < 128 THEN 1 ELSE IF c < 2048 THEN 2 ELSE 3

\* String::push(char): the UTF-8 encoding of a character
Encode(c) ==
    IF c < 128 THEN <<c>>
    ELSE IF c < 2048 THEN <<192 + (c \div 64), 128 + (c % 64)>>
    ELSE <<224 + (c \div 4096), 128 + ((c \div 64) % 64), 128 + (c % 64)>>

\* &s[n..] for a byte offset n already known to be in range
SliceFrom(s, n) == SubSeq(s, n + 1, Len(s))

\* str::is_char_boundary
IsCharBoundary(s, n) ==
    \/ n = 0
    \/ n = Len(s)
    \/ n < Len(s) /\ ~(s[n + 1] \in 128..191)

\* input.chars().next(): the first character and the iterator after it
NextChar(s) ==
    IF s = <<>> THEN [some |-> FALSE, ch |-> 0, rest |-> <<>>]
    ELSE IF s[1] < 128 THEN [some |-> TRUE, ch |-> s[1], rest |-> SliceFrom(s, 1)]
    ELSE IF s[1] < 224
         THEN [some |-> TRUE, ch |-> (s[1] - 192) * 64 + (s[2] - 128),
               rest |-> SliceFrom(s, 2)]
    ELSE [some |-> TRUE,
          ch |-> (s[1] - 224) * 4096 + (s[2] - 128) * 64 + (s[3] - 128),
          rest |-> SliceFrom(s, 3)]

\* a get that rejects the slice that is the whole input
Get_StrictlyShorter(s, n) ==
    IF n < Len(s) /\ IsCharBoundary(s, n)
    THEN [some |-> TRUE, str |-> SubSeq(s, 1, n)]
    ELSE [some |-> FALSE, str |-> <<>>]

\* input.get(0..n): None when n is out of range or not on a char boundary
Get(s, n) ==
    IF n <= Len(s) /\ IsCharBoundary(s, n)
    THEN [some |-> TRUE, str |-> SubSeq(s, 1, n)]
    ELSE [some |-> FALSE, str |-> <<>>]

\* char::is_alphabetic, char::is_alphanumeric, char::is_whitespace
IsAlphabetic(c) == c \in 65..90 \/ c \in 97..122 \/ c \in {170, 181, 186} \/
                   (c \in 192..591 /\ c \notin {215, 247})
IsNumeric(c) == c \in 48..57 \/ c \in {178, 179, 185, 188, 189, 190}
IsAlphanumeric(c) == IsAlphabetic(c) \/ IsNumeric(c)
IsWhitespace(c) == c \in 9..13 \/ c \in {32, 133, 160}

----------------------------------------------------------------------------
(* Output values and ParseResult *)

NoVal == [tag |-> "none", n |-> 0, b |-> <<>>, kids |-> <<>>]
UnitVal == [tag |-> "unit", n |-> 0, b |-> <<>>, kids |-> <<>>]
CharVal(c) == [tag |-> "char", n |-> c, b |-> <<>>, kids |-> <<>>]
StringVal(bytes) == [tag |-> "string", n |-> 0, b |-> bytes, kids |-> <<>>]
TupleVal(v1, v2) == [tag |-> "tuple", n |-> 0, b |-> <<>>, kids |-> <<v1, v2>>]
VecVal(items) == [tag |-> "vec", n |-> 0, b |-> <<>>, kids |-> items]

Ok(rest, val) == [kind |-> "ok", rest |-> rest, val |-> val]
Err(input) == [kind |-> "err", rest |-> input, val |-> NoVal]
Panic == [kind |-> "panic", rest |-> <<>>, val |-> NoVal]
Hang == [kind |-> "hang", rest |-> <<>>, val |-> NoVal]

\* Ok((&input[n..], val)): slicing off a char boundary panics
OkFrom(input, n, val) ==
    IF n <= Len(input) /\ IsCharBoundary(input, n)
    THEN Ok(SliceFrom(input, n), val)
    ELSE Panic

----------------------------------------------------------------------------
(* The closures the caller hands to map and pred *)

RECURSIVE Collect(_)
\* chars.into_iter().collect(): Vec<char> -> String
Collect(chars) ==
    IF chars = <<>> THEN <<>>
    ELSE Encode(chars[1].n) \o Collect(SliceFrom(chars, 1))

MapFn(f, v) ==
    CASE f = "left_proj" -> v.kids[1]
      [] f = "right_proj" -> v.kids[2]
      [] f = "collect" -> StringVal(Collect(v.kids))
      [] f = "identity" -> v

Predicate(q, v) ==
    CASE q = "is_whitespace" -> IsWhitespace(v.n)
      [] q = "not_quote" -> v.n # 34
      [] q = "accept" -> TRUE
      [] q = "reject" -> FALSE

----------------------------------------------------------------------------
(* Parser values: what each constructor returns *)

MatchLiteral(expected) ==
    [kind |-> "match_literal", lit |-> expected, fn |-> "", sub |-> <<>>]
AnyChar == [kind |-> "any_char", lit |-> <<>>, fn |-> "", sub |-> <<>>]
Identifier == [kind |-> "identifier", lit |-> <<>>, fn |-> "", sub |-> <<>>]
Pair(p1, p2) == [kind |-> "pair", lit |-> <<>>, fn |-> "", sub |-> <<p1, p2>>]
Map(p, f) == [kind |-> "map", lit |-> <<>>, fn |-> f, sub |-> <<p>>]
Left(p1, p2) == Map(Pair(p1, p2), "left_proj")
Right(p1, p2) == Map(Pair(p1, p2), "right_proj")
OneOrMore(p) == [kind |-> "one_or_more", lit |-> <<>>, fn |-> "", sub |-> <<p>>]
ZeroOrMore(p) == [kind |-> "zero_or_more", lit |-> <<>>, fn |-> "", sub |-> <<p>>]
Pred(p, q) == [kind |-> "pred", lit |-> <<>>, fn |-> q, sub |-> <<p>>]
WhitespaceChar == Pred(AnyChar, "is_whitespace")
Space1 == OneOrMore(WhitespaceChar)
Space0 == ZeroOrMore(WhitespaceChar)
QuotedString ==
    Map(Right(MatchLiteral(<<34>>),
              Left(ZeroOrMore(Pred(AnyChar, "not_quote")), MatchLiteral(<<34>>))),
        "collect")

----------------------------------------------------------------------------
(* parse: what each closure does with an input *)

RECURSIVE Parse(_, _)
RECURSIVE IdentScan(_, _)
RECURSIVE RepLoop(_, _, _)

\* a match_literal that hands back the literal in place of the remainder
match_literal_ReturnsExpected(expected, input) ==
    LET next == Get(input, Len(expected))
    IN IF next.some /\ next.str = expected
       THEN Ok(expected, UnitVal)
       ELSE Err(input)

match_literal(expected, input) ==
    LET next == Get(input, Len(expected))
    IN IF next.some /\ next.str = expected
       THEN OkFrom(input, Len(expected), UnitVal)
       ELSE Err(input)

\* a scan that forgets the hyphen
IdentScan_NoHyphen(chars, matched) ==
    LET c == NextChar(chars)
    IN IF c.some /\ IsAlphanumeric(c.ch)
       THEN IdentScan(c.rest, matched \o Encode(c.ch))
       ELSE matched

\* the while-let loop of identifier: the String matched so far
IdentScan(chars, matched) ==
    LET c == NextChar(chars)
    IN IF c.some /\ (IsAlphanumeric(c.ch) \/ c.ch = 45)
       THEN IdentScan(c.rest, matched \o Encode(c.ch))
       ELSE matched

\* an identifier that fails with what its iterator has left
identifier_ErrAfterFirstChar(input) ==
    LET c == NextChar(input)
    IN IF c.some /\ IsAlphabetic(c.ch)
       THEN LET matched == IdentScan(c.rest, Encode(c.ch))
            IN OkFrom(input, Len(matched), StringVal(matched))
       ELSE Err(c.rest)

identifier(input) ==
    LET c == NextChar(input)
    IN IF c.some /\ IsAlphabetic(c.ch)
       THEN LET matched == IdentScan(c.rest, Encode(c.ch))
            IN OkFrom(input, Len(matched), StringVal(matched))
       ELSE Err(input)

any_char(input) ==
    LET c == NextChar(input)
    IN IF c.some THEN OkFrom(input, LenUtf8(c.ch), CharVal(c.ch))
       ELSE Err(input)

\* a pair that backtracks to its own input when the second parser fails
pair_Backtracks(parser1, parser2, input) ==
    LET r1 == Parse(parser1, input)
    IN IF r1.kind = "ok"
       THEN LET r2 == Parse(parser2, r1.rest)
            IN IF r2.kind = "ok"
               THEN Ok(r2.rest, TupleVal(r1.val, r2.val))
               ELSE IF r2.kind = "err" THEN Err(input) ELSE r2
       ELSE r1

\* and_then / map of Result: an Err of either step is returned as it is
pair(parser1, parser2, input) ==
    LET r1 == Parse(parser1, input)
    IN IF r1.kind = "ok"
       THEN LET r2 == Parse(parser2, r1.rest)
            IN IF r2.kind = "ok"
               THEN Ok(r2.rest, TupleVal(r1.val, r2.val))
               ELSE r2
       ELSE r1

map(parser, map_fn, input) ==
    LET r == Parse(parser, input)
    IN IF r.kind = "ok" THEN Ok(r.rest, MapFn(map_fn, r.val)) ELSE r

\* a pred that fails with the input the inner parser left or returned
pred_ReturnsRemainder(parser, predicate, input) ==
    LET r == Parse(parser, input)
    IN IF r.kind = "ok" /\ Predicate(predicate, r.val) THEN r
       ELSE IF r.kind \in {"ok", "err"} THEN Err(r.rest)
       ELSE r

pred(parser, predicate, input) ==
    LET r == Parse(parser, input)
    IN IF r.kind = "ok" /\ Predicate(predicate, r.val) THEN r
       ELSE IF r.kind \in {"ok", "err"} THEN Err(input)
       ELSE r

\* while let Ok((next_input, next_item)) = parser.parse(input) { ... }
\* followed by Ok((input, result)).  The parsers are pure: an attempt that
\* succeeds and hands back its own input succeeds again for ever.
RepLoop(parser, input, result) ==
    LET r == Parse(parser, input)
    IN IF r.kind = "ok"
       THEN IF r.rest = input THEN Hang
            ELSE RepLoop(parser, r.rest, Append(result, r.val))
       ELSE IF r.kind = "err" THEN Ok(input, VecVal(result))
       ELSE r

one_or_more(parser, input) ==
    LET r == Parse(parser, input)
    IN IF r.kind = "ok" THEN RepLoop(parser, r.rest, <<r.val>>)
       ELSE IF r.kind = "err" THEN Err(input)
       ELSE r

zero_or_more(parser, input) == RepLoop(parser, input, <<>>)

Parse(p, input) ==
    CASE p.kind = "match_literal" -> match_literal(p.lit, input)
      [] p.kind = "any_char" -> any_char(input)
      [] p.kind = "identifier" -> identifier(input)
      [] p.kind = "pair" -> pair(p.sub[1], p.sub[2], input)
      [] p.kind = "map" -> map(p.sub[1], p.fn, input)
      [] p.kind = "pred" -> pred(p.sub[1], p.fn, input)
      [] p.kind = "one_or_more" -> one_or_more(p.sub[1], input)
      [] p.kind = "zero_or_more" -> zero_or_more(p.sub[1], input)

----------------------------------------------------------------------------
(* The inputs and the parsers a caller can build *)

\* the &str values of at most MaxLen characters over Alphabet
RECURSIVE Utf8(_)
Utf8(chars) ==
    IF chars = <<>> THEN <<>> ELSE Encode(Head(chars)) \o Utf8(SliceFrom(chars, 1))

Inputs == UNION {{Utf8(cs) : cs \in [1..k -> Alphabet]} : k \in 0..MaxLen}

\* "", "a", "\"", "e-acute"
Literals == {<<>>, <<97>>, <<34>>, <<195, 169>>}
Leaves == {MatchLiteral(e) : e \in Literals} \cup {AnyChar, Identifier}
Pairs == {Pair(a, b) : a \in Leaves, b \in Leaves}
Few == {MatchLiteral(<<97>>), AnyChar, Identifier}
Projections == {Left(a, b) : a \in Few, b \in Few} \cup
               {Right(a, b) : a \in Few, b \in Few}
NestedPairs ==
    {Pair(Pair(a, b), c) : a \in Few, b \in Few, c \in Few} \cup
    {Pair(a, Pair(b, c)) : a \in Few, b \in Few, c \in Few} \cup
    {Pair(a, ZeroOrMore(MatchLiteral(<<>>))) : a \in Leaves} \cup
    {Pair(ZeroOrMore(a), b) : a \in Few, b \in Few}
Maps == {Map(a, "identity") : a \in Leaves \cup Pairs}
Preds ==
    {Pred(a, q) : a \in Leaves \cup Pairs, q \in {"accept", "reject"}} \cup
    {WhitespaceChar, Pred(AnyChar, "not_quote")}
Inner == Leaves \cup Pairs \cup {WhitespaceChar, Pred(AnyChar, "not_quote")}
Repetitions == {OneOrMore(a) : a \in Inner} \cup {ZeroOrMore(a) : a \in Inner}
Parsers == Leaves \cup Pairs \cup Projections \cup NestedPairs \cup Maps \cup
           Preds \cup Repetitions \cup {QuotedString}

----------------------------------------------------------------------------
(* One call parser.parse(src) *)

VARIABLES parser, src, pc, input, result, inputs, out

vars == <<parser, src, pc, input, result, inputs, out>>

NoResult == [kind |-> "none", rest |-> <<>>, val |-> NoVal]

\* where control is once a call has produced r
After(r) == IF r.kind \in {"ok", "err"} THEN "done" ELSE r.kind

Init ==
    /\ parser \in Parsers
    /\ src \in Inputs
    /\ pc = "start"
    /\ input = src
    /\ result = <<>>
    /\ inputs = <<>>
    /\ out = NoResult

Return(r) ==
    /\ out' = r
    /\ pc' = After(r)
    /\ UNCHANGED <<parser, src, input, result, inputs>>

CallMatchLiteral ==
    /\ pc = "start" /\ parser.kind = "match_literal"
    /\ Return(match_literal(parser.lit, input))

CallIdentifier ==
    /\ pc = "start" /\ parser.kind = "identifier"
    /\ Return(identifier(input))

CallAnyChar ==
    /\ pc = "start" /\ parser.kind = "any_char"
    /\ Return(any_char(input))

CallPair ==
    /\ pc = "start" /\ parser.kind = "pair"
    /\ Return(pair(parser.sub[1], parser.sub[2], input))

CallMap ==
    /\ pc = "start" /\ parser.kind = "map"
    /\ Return(map(parser.sub[1], parser.fn, input))

CallPred ==
    /\ pc = "start" /\ parser.kind = "pred"
    /\ Return(pred(parser.sub[1], parser.fn, input))

\* a one_or_more that returns the inner parser's failure as it is
OneOrMoreFirst_ReturnsInnerErr ==
    /\ pc = "start" /\ parser.kind = "one_or_more"
    /\ LET r == Parse(parser.sub[1], input)
       IN /\ inputs' = Append(inputs, input)
          /\ IF r.kind = "ok"
             THEN /\ input' = r.rest
                  /\ result' = Append(result, r.val)
                  /\ pc' = "loop"
                  /\ out' = out
             ELSE /\ out' = r
                  /\ pc' = After(out')
                  /\ UNCHANGED <<input, result>>
    /\ UNCHANGED <<parser, src>>

\* one_or_more, the if-let before the loop
OneOrMoreFirst ==
    /\ pc = "start" /\ parser.kind = "one_or_more"
    /\ LET r == Parse(parser.sub[1], input)
       IN /\ inputs' = Append(inputs, input)
          /\ IF r.kind = "ok"
             THEN /\ input' = r.rest
                  /\ result' = Append(result, r.val)
                  /\ pc' = "loop"
                  /\ out' = out
             ELSE /\ out' = IF r.kind = "err" THEN Err(input) ELSE r
                  /\ pc' = After(out')
                  /\ UNCHANGED <<input, result>>
    /\ UNCHANGED <<parser, src>>

\* a loop that forgets input = next_input
LoopStep_KeepsInput ==
    LET r == Parse(parser.sub[1], input)
    IN /\ r.kind = "ok"
       /\ Len(result) < MaxIter
       /\ inputs' = Append(inputs, input)
       /\ input' = input
       /\ result' = Append(result, r.val)
       /\ pc' = "loop"
       /\ UNCHANGED <<parser, src, out>>

\* one iteration of a while-let loop: the attempt succeeds
LoopStep ==
    LET r == Parse(parser.sub[1], input)
    IN /\ r.kind = "ok"
       /\ Len(result) < MaxIter
       /\ inputs' = Append(inputs, input)
       /\ input' = r.rest
       /\ result' = Append(result, r.val)
       /\ pc' = "loop"
       /\ UNCHANGED <<parser, src, out>>

\* a loop that returns the input its failing attempt returned
LoopExit_ReturnsFailureInput ==
    LET r == Parse(parser.sub[1], input)
    IN /\ r.kind # "ok"
       /\ inputs' = Append(inputs, input)
       /\ out' = IF r.kind = "err" THEN Ok(r.rest, VecVal(result)) ELSE r
       /\ pc' = After(out')
       /\ UNCHANGED <<parser, src, input, result>>

\* the attempt that ends a while-let loop, and the Ok((input, result)) after it
LoopExit ==
    LET r == Parse(parser.sub[1], input)
    IN /\ r.kind # "ok"
       /\ inputs' = Append(inputs, input)
       /\ out' = IF r.kind = "err" THEN Ok(input, VecVal(result)) ELSE r
       /\ pc' = After(out')
       /\ UNCHANGED <<parser, src, input, result>>

OneOrMoreStep == pc = "loop" /\ parser.kind = "one_or_more" /\ LoopStep
OneOrMoreExit == pc = "loop" /\ parser.kind = "one_or_more" /\ LoopExit
ZeroOrMoreStep ==
    pc \in {"start", "loop"} /\ parser.kind = "zero_or_more" /\ LoopStep
\* a zero_or_more that, like one_or_more, fails when nothing matched
ZeroOrMoreExit_FailsWhenEmpty ==
    /\ pc \in {"start", "loop"} /\ parser.kind = "zero_or_more"
    /\ IF result = <<>> /\ Parse(parser.sub[1], input).kind = "err"
       THEN /\ out' = Err(input)
            /\ pc' = "done"
            /\ inputs' = Append(inputs, input)
            /\ UNCHANGED <<parser, src, input, result>>
       ELSE LoopExit

ZeroOrMoreExit ==
    pc \in {"start", "loop"} /\ parser.kind = "zero_or_more" /\ LoopExit

Next ==
    \/ CallMatchLiteral
    \/ CallIdentifier
    \/ CallAnyChar
    \/ CallPair
    \/ CallMap
    \/ CallPred
    \/ OneOrMoreFirst
    \/ OneOrMoreStep
    \/ OneOrMoreExit
    \/ ZeroOrMoreStep
    \/ ZeroOrMoreExit

Spec == Init /\ [][Next]_vars

----------------------------------------------------------------------------
(* Vocabulary of the properties *)

IsSuffix(r, s) ==
    \E k \in 0..Len(s) : s = SubSeq(s, 1, k) \o r

IsPrefix(e, s) ==
    Len(e) <= Len(s) /\ \A i \in 1..Len(e) : s[i] = e[i]

\* number of characters of a &str: the bytes that start one
CharLen(s) == Cardinality({i \in 1..Len(s) : s[i] \notin 128..191})

\* the &str values s[k..]
Suffixes(s) ==
    {SubSeq(s, k + 1, Len(s)) : k \in {j \in 0..Len(s) : IsCharBoundary(s, j)}}

\* the character sequences the inputs encode
CharSeqs == UNION {[1..k -> Alphabet] : k \in 0..MaxLen}

IsRepetition(p) == p.kind \in {"one_or_more", "zero_or_more"}

Returned == pc = "done"
Failed == pc = "done" /\ out.kind = "err"
Succeeded == pc = "done" /\ out.kind = "ok"

RECURSIVE NoSecondStep(_, _)
\* a failure of p on s is not that of the second step of a pair: p is no
\* pair (nor a map of one, which left, right and quoted_string are), or its
\* first parser is the one that fails, and not in a second step of its own
NoSecondStep(p, s) ==
    CASE p.kind = "pair" ->
            Parse(p.sub[1], s).kind = "err" /\ NoSecondStep(p.sub[1], s)
      [] p.kind = "map" -> NoSecondStep(p.sub[1], s)
      [] OTHER -> TRUE

----------------------------------------------------------------------------
\* C1 (as stated): whenever a parser built from the library fails on s, the
\* input it returns is identical to s.
C1_NoConsumptionOnFailure == Failed => out.rest = src

\* C1 (amended): a failure returns a suffix of s, and it returns s itself
\* unless the failure is that of the second step of a pair (a pair, left,
\* right or quoted_string, under any map or as the first parser of a pair).
C1_FailureInput ==
    Failed => /\ IsSuffix(out.rest, src)
              /\ NoSecondStep(parser, src) => out.rest = src

\* a parser that is no pair fails after its inner parser consumed something
C1_Witness ==
    /\ Failed
    /\ parser.kind \in {"pred", "one_or_more"}
    /\ parser.sub[1].kind = "pair"
    /\ Parse(parser.sub[1], src).rest # src
    /\ out.rest = src

\* C2: on success the remainder r is a suffix of the input s (s is some
\* prefix followed by r) and r is never longer than s.
C2_SuffixInvariant ==
    Succeeded => /\ \E k \in 0..Len(src) :
                       src = SubSeq(src, 1, k) \o out.rest
                 /\ Len(out.rest) <= Len(src)

\* a success that consumed something and left something
C2_Witness ==
    /\ Succeeded
    /\ parser.kind = "pair"
    /\ out.rest # <<>>
    /\ Len(out.rest) < Len(src) - 1

\* C3: zero_or_more(P) never returns a failure, and when P's first attempt
\* on s fails it returns success with the empty sequence and s as remainder.
C3_ZeroOrMoreTotal ==
    parser.kind = "zero_or_more" =>
        /\ out.kind # "err"
        /\ Parse(parser, src).kind # "err"
        /\ (Returned /\ Parse(parser.sub[1], src).kind = "err") =>
               out = Ok(src, VecVal(<<>>))

\* the first attempt is a pair that failed in its second step
C3_Witness ==
    /\ Returned
    /\ parser.kind = "zero_or_more"
    /\ Parse(parser.sub[1], src).kind = "err"
    /\ Parse(parser.sub[1], src).rest # src
    /\ out.kind = "ok"

\* C4: one_or_more(P) fails on s exactly when zero_or_more(P) succeeds on s
\* with an empty sequence, and a failing one_or_more(P) returns s.
C4_OneVsZero ==
    parser.kind = "one_or_more" =>
        LET z == Parse(ZeroOrMore(parser.sub[1]), src)
            zEmpty == z.kind = "ok" /\ z.val.kids = <<>>
        IN /\ pc # "start" => ((out.kind = "err") <=> zEmpty)
           /\ out.kind = "err" => out.rest = src

\* one_or_more fails where the inner parser returned another input
C4_Witness ==
    /\ Failed
    /\ parser.kind = "one_or_more"
    /\ Parse(parser.sub[1], src).rest # src
    /\ Parse(ZeroOrMore(parser.sub[1]), src) = Ok(src, VecVal(<<>>))

\* C5 (as stated): pair(p1, p2) succeeds exactly when p1 succeeds on s and
\* p2 on p1's remainder, with (v1, v2) and p2's remainder; otherwise it fails
\* with the input the failing step received: s when p1 fails (p2 is then not
\* run), p1's remainder when p2 fails.  left and right surface the same
\* failure input.
C5_PairFailsWithReceivedInput ==
    (Returned /\ parser.kind = "pair") =>
        LET r1 == Parse(parser.sub[1], src)
            r2 == Parse(parser.sub[2], r1.rest)
        IN IF r1.kind = "ok" /\ r2.kind = "ok"
           THEN out = Ok(r2.rest, TupleVal(r1.val, r2.val))
           ELSE IF r1.kind = "ok" THEN out = Err(r1.rest)
           ELSE out = Err(src)

\* C5 (amended): as stated, but a failing pair returns the input the failing
\* step returned in its failure; that is the input the step received (s for
\* p1, p1's remainder for p2) whenever that step's own failure is not that
\* of the second step of a pair inside it.
C5_PairFailsWithReturnedInput ==
    /\ (pc # "start" /\ parser.kind = "pair") =>
          LET r1 == Parse(parser.sub[1], src)
              r2 == Parse(parser.sub[2], r1.rest)
          IN /\ (r1.kind = "ok" /\ r2.kind = "ok") =>
                    out = Ok(r2.rest, TupleVal(r1.val, r2.val))
             /\ (r1.kind = "ok" /\ r2.kind = "err") =>
                    /\ out = Err(r2.rest)
                    /\ NoSecondStep(parser.sub[2], r1.rest) =>
                           out = Err(r1.rest)
             /\ r1.kind = "err" =>
                    /\ out = Err(r1.rest)
                    /\ NoSecondStep(parser.sub[1], src) => out = Err(src)
             /\ out.kind = "ok" => (r1.kind = "ok" /\ r2.kind = "ok")
    /\ (pc # "start" /\ parser.kind = "map" /\ parser.sub[1].kind = "pair"
           /\ parser.fn \in {"left_proj", "right_proj"}) =>
          LET r == Parse(parser.sub[1], src)
          IN /\ out.kind = r.kind
             /\ out.rest = r.rest
             /\ r.kind = "ok" =>
                    out.val = r.val.kids[IF parser.fn = "left_proj" THEN 1 ELSE 2]

\* the second step is itself a pair that fails in its second step
C5_Witness ==
    /\ Failed
    /\ parser.kind = "pair"
    /\ Parse(parser.sub[1], src).kind = "ok"
    /\ parser.sub[2].kind = "pair"
    /\ out.rest # Parse(parser.sub[1], src).rest

\* C6: pred(P, q) returns P's success unchanged when P succeeds on s and q
\* holds of the value; in every other case it fails with s itself, not P's
\* remainder and not the input P's failure returned.
C6_Pred ==
    (pc # "start" /\ parser.kind = "pred") =>
        LET r == Parse(parser.sub[1], src)
        IN IF r.kind = "ok" /\ Predicate(parser.fn, r.val)
           THEN out = r
           ELSE out = Err(src)

\* P failed and returned another input than s
C6_Witness ==
    /\ Failed
    /\ parser.kind = "pred"
    /\ Parse(parser.sub[1], src).kind = "err"
    /\ Parse(parser.sub[1], src).rest # src
    /\ out.rest = src

\* C7: match_literal(expected) succeeds on s exactly when s begins with
\* expected, with the unit value and s less that prefix as remainder;
\* otherwise (s empty or shorter than expected included) it fails with s,
\* and it never panics.
C7_MatchLiteral ==
    (pc # "start" /\ parser.kind = "match_literal") =>
        /\ pc = "done"
        /\ IF IsPrefix(parser.lit, src)
           THEN out = Ok(SubSeq(src, Len(parser.lit) + 1, Len(src)), UnitVal)
           ELSE out = Err(src)

\* the input is shorter than the literal, and the literal's length falls
\* inside a character of another input
C7_Witness ==
    /\ Failed
    /\ parser.kind = "match_literal"
    /\ \/ (src # <<>> /\ Len(src) < Len(parser.lit))
       \/ (Len(src) > Len(parser.lit) /\ src[Len(parser.lit) + 1] \in 128..191)

C9_Repetition ==
    (Succeeded /\ IsRepetition(parser)) =>
        LET P == parser.sub[1]
            n == Len(out.val.kids)
        IN /\ out.val.tag = "vec"
           /\ Len(inputs) = n + 1
           /\ inputs[1] = src
           /\ \A i \in 1..n :
                 Parse(P, inputs[i]) = Ok(inputs[i + 1], out.val.kids[i])
           /\ Parse(P, inputs[n + 1]).kind = "err"
           /\ out.rest = inputs[n + 1]

\* after a success, the failing attempt is a pair that fails in its second
\* step and returns another input than it was handed
C9_Witness ==
    /\ Succeeded
    /\ IsRepetition(parser)
    /\ parser.sub[1].kind = "pair"
    /\ Len(out.val.kids) >= 1
    /\ Parse(parser.sub[1], out.rest).rest # out.rest

\* P shrinks its input: on every suffix of s, a success of P returns a
\* remainder strictly shorter than the input it was given
Shrinks(P, s) ==
    \A t \in Suffixes(s) :
        LET r == Parse(P, t) IN r.kind = "ok" => Len(r.rest) < Len(t)

\* C10: for an inner parser P that shrinks its input, one_or_more(P) and
\* zero_or_more(P) return, after at most length(s) successful attempts of P
\* and one failing attempt: the attempts are so bounded, and until the call
\* has returned its next attempt can be made and comes back.
C10_Termination ==
    (IsRepetition(parser) /\ Shrinks(parser.sub[1], src)) =>
        /\ Len(result) <= CharLen(src)
        /\ Len(inputs) <= CharLen(src) + 1
        /\ Len(inputs) \in {Len(result), Len(result) + 1}
        /\ pc \in {"start", "loop", "done"}
        /\ pc # "done" => /\ Parse(parser.sub[1], input).kind \in {"ok", "err"}
                          /\ Len(result) < MaxIter

\* a loop that needed every one of its length(s) + 1 attempts
C10_Witness ==
    /\ Succeeded
    /\ IsRepetition(parser)
    /\ Shrinks(parser.sub[1], src)
    /\ CharLen(src) >= 2
    /\ Len(result) = CharLen(src)
    /\ Len(inputs) = CharLen(src) + 1

====
